---- MODULE Spec2Model ----
(***************************************************************************)
(* Model of the constant-product AMM contract of src/amm/lib.rs (ink!).    *)
(* The contract storage is the state; every #[ink(message)] is one action  *)
(* that runs the whole handler atomically.  The three HashMaps are partial *)
(* functions (a key may be absent), Balance is a natural number: within    *)
(* the bounds below every value stays far under 2^128, so u128 arithmetic  *)
(* never wraps.  A panic (division by zero, unwrap of an absent entry)     *)
(* traps the call: its result is "Panic" and the storage is unchanged.     *)
(* The variable op records the last call: the message, its caller, the     *)
(* result (Ok or the Error variant) and the returned values; for the       *)
(* constructor it keeps the fee that was passed in.                        *)
(***************************************************************************)
EXTENDS Integers, FiniteSets, Sequences, TLC

VARIABLES totalShares, totalToken1, totalToken2, shares,
          token1Balance, token2Balance, fees, op

pool == <<totalShares, totalToken1, totalToken2, shares,
          token1Balance, token2Balance, fees>>
vars == <<totalShares, totalToken1, totalToken2, shares,
          token1Balance, token2Balance, fees, op>>

(* ------------------------------ bounds --------------------------------- *)
\* the principals that call the contract
Accounts == {"alice", "bob"}
\* most units of token 1 the faucet ever hands out in total
MaxSupply1 == 5
\* most units of token 2 the faucet ever hands out in total
MaxSupply2 == 2
\* provide is not explored beyond this many outstanding shares
MaxShares == 200000000
\* fee values given to the constructor
FeeInputs == {0, 100, 1000, 1001}
\* slippage limits given to the swaps
LimitInputs == {0, 1, 5}

(* ----------------------------- constants ------------------------------- *)
PRECISION == 1000000

(* --------------------------- HashMap helpers --------------------------- *)
\* *map.get(&k).unwrap_or(&0)
get(m, k) == IF k \in DOMAIN m THEN m[k] ELSE 0

\* an insert into a fresh map: the other entries are lost
insert_only(m, k, v) == [x \in {k} |-> v]

\* map.insert(k, v)
insert(m, k, v) == [x \in (DOMAIN m) \cup {k} |-> IF x = k THEN v ELSE m[x]]

\* a credit or debit that never reaches the entry
and_modify_dropped(m, k, d) == m

\* map.entry(k).and_modify(|val| *val += d): nothing happens when k is absent
and_modify(m, k, d) == IF k \in DOMAIN m THEN [m EXCEPT ![k] = @ + d] ELSE m

\* or_insert without and_modify: the new amount replaces the old entry
and_modify_or_insert_overwrite(m, k, d) == insert(m, k, d)

\* map.entry(k).and_modify(|val| *val += d).or_insert(d)
and_modify_or_insert(m, k, d) ==
    IF k \in DOMAIN m THEN [m EXCEPT ![k] = @ + d] ELSE insert(m, k, d)

RECURSIVE SumOver(_, _)
SumOver(m, ks) ==
    IF ks = {} THEN 0
    ELSE LET k == CHOOSE x \in ks : TRUE IN m[k] + SumOver(m, ks \ {k})

\* the sum of all entries of a map
Sum(m) == SumOver(m, DOMAIN m)

(* ------------------------------ results -------------------------------- *)
Errors == {"ZeroLiquidity", "ZeroAmount", "InsufficientAmount",
           "NonEquivalentValue", "ThresholdNotReached", "InvalidShare",
           "InsufficientLiquidity", "SlippageExceeded"}

Ok(v1, v2) == [res |-> "Ok", v1 |-> v1, v2 |-> v2]
Err(e) == [res |-> e, v1 |-> 0, v2 |-> 0]

\* the record of a call: the message, the caller, the result it returned
Call(name, caller, r) ==
    [name |-> name, caller |-> caller, res |-> r.res, v1 |-> r.v1, v2 |-> r.v2]

(* ------------------------------ helpers -------------------------------- *)
\* the check without its first arm: a zero quantity passes
validAmountCheck_zero_allowed(_balance, caller, _qty) ==
    IF _qty > get(_balance, caller) THEN "InsufficientAmount" ELSE "Ok"

\* the check without its second arm: more than the balance passes
validAmountCheck_balance_unchecked(_balance, caller, _qty) ==
    IF _qty = 0 THEN "ZeroAmount" ELSE "Ok"

validAmountCheck(_balance, caller, _qty) ==
    LET my_balance == get(_balance, caller) IN
    IF _qty = 0 THEN "ZeroAmount"
    ELSE IF _qty > my_balance THEN "InsufficientAmount"
    ELSE "Ok"

getK == totalToken1 * totalToken2

\* the check that lets an empty pool through
activePool_unchecked == "Ok"

activePool == IF getK = 0 THEN "ZeroLiquidity" ELSE "Ok"

\* shares a withdraw estimate is asked for: none, all but one, all, one too many
EstimateInputs ==
    {x \in {0, totalShares - 1, totalShares, totalShares + 1} : x >= 0}

(* ---------------------------- constructor ------------------------------ *)
\* the constructor that lets a fee of exactly 1000 through
new_off_by_one(_fees) ==
    /\ fees = (IF _fees > 1000 THEN 0 ELSE _fees)
    /\ totalShares = 0
    /\ totalToken1 = 0
    /\ totalToken2 = 0
    /\ shares = << >>
    /\ token1Balance = << >>
    /\ token2Balance = << >>
    /\ op = Call("new", "none", Ok(_fees, 0))

\* the record of the call keeps the fee the constructor was given
new(_fees) ==
    /\ fees = (IF _fees >= 1000 THEN 0 ELSE _fees)
    /\ totalShares = 0
    /\ totalToken1 = 0
    /\ totalToken2 = 0
    /\ shares = << >>
    /\ token1Balance = << >>
    /\ token2Balance = << >>
    /\ op = Call("new", "none", Ok(_fees, 0))

Init == \E _fees \in FeeInputs : new(_fees)

(* ------------------------------- faucet -------------------------------- *)
faucet(caller, _amountToken1, _amountToken2) ==
    LET token1 == get(token1Balance, caller)
        token2 == get(token2Balance, caller) IN
    /\ totalToken1 + Sum(token1Balance) + _amountToken1 <= MaxSupply1
    /\ totalToken2 + Sum(token2Balance) + _amountToken2 <= MaxSupply2
    /\ token1Balance' = insert(token1Balance, caller, token1 + _amountToken1)
    /\ token2Balance' = insert(token2Balance, caller, token2 + _amountToken2)
    /\ op' = Call("faucet", caller, Ok(0, 0))
    /\ UNCHANGED <<totalShares, totalToken1, totalToken2, shares, fees>>

(* ------------------------------- provide ------------------------------- *)
\* a genesis deposit that issues 10 shares instead of 100
genesisShare_ten == 10 * PRECISION

\* the shares of the genesis deposit
genesisShare == 100 * PRECISION

\* the unwrap() of the caller's two balance entries
unwrapBalances(caller, r) ==
    IF caller \in DOMAIN token1Balance /\ caller \in DOMAIN token2Balance
    THEN r ELSE Err("Panic")

\* the share count with both quotients rounded up instead of down
provideShare_round_up(caller, _amountToken1, _amountToken2) ==
    LET c1 == validAmountCheck(token1Balance, caller, _amountToken1)
        c2 == validAmountCheck(token2Balance, caller, _amountToken2) IN
    IF c1 # "Ok" THEN Err(c1)
    ELSE IF c2 # "Ok" THEN Err(c2)
    ELSE IF totalShares = 0 THEN unwrapBalances(caller, Ok(genesisShare, 0))
    ELSE IF totalToken1 = 0 \/ totalToken2 = 0 THEN Err("Panic")
    ELSE LET share1 == (totalShares * _amountToken1 + totalToken1 - 1)
                          \div totalToken1
             share2 == (totalShares * _amountToken2 + totalToken2 - 1)
                          \div totalToken2 IN
         IF share1 # share2 THEN Err("NonEquivalentValue")
         ELSE IF share1 = 0 THEN Err("ThresholdNotReached")
         ELSE unwrapBalances(caller, Ok(share1, 0))

\* the share count provide computes, or the error it returns; a division by
\* zero or an unwrap() of an absent entry is a panic, which traps the call
\* and leaves the storage as it was
provideShare(caller, _amountToken1, _amountToken2) ==
    LET c1 == validAmountCheck(token1Balance, caller, _amountToken1)
        c2 == validAmountCheck(token2Balance, caller, _amountToken2) IN
    IF c1 # "Ok" THEN Err(c1)
    ELSE IF c2 # "Ok" THEN Err(c2)
    ELSE IF totalShares = 0 THEN unwrapBalances(caller, Ok(genesisShare, 0))
    ELSE IF totalToken1 = 0 \/ totalToken2 = 0 THEN Err("Panic")
    ELSE LET share1 == (totalShares * _amountToken1) \div totalToken1
             share2 == (totalShares * _amountToken2) \div totalToken2 IN
         IF share1 # share2 THEN Err("NonEquivalentValue")
         ELSE IF share1 = 0 THEN Err("ThresholdNotReached")
         ELSE unwrapBalances(caller, Ok(share1, 0))

provide(caller, _amountToken1, _amountToken2) ==
    LET r == provideShare(caller, _amountToken1, _amountToken2)
        share == r.v1 IN
    /\ r.res = "Ok" => totalShares + share <= MaxShares
    /\ op' = Call("provide", caller, r)
    /\ IF r.res # "Ok" THEN UNCHANGED pool
       ELSE /\ token1Balance' = insert(token1Balance, caller,
                                       token1Balance[caller] - _amountToken1)
            /\ token2Balance' = insert(token2Balance, caller,
                                       token2Balance[caller] - _amountToken2)
            /\ totalToken1' = totalToken1 + _amountToken1
            /\ totalToken2' = totalToken2 + _amountToken2
            /\ totalShares' = totalShares + share
            /\ shares' = and_modify_or_insert(shares, caller, share)
            /\ UNCHANGED fees

(* ------------------------- equivalent estimates ------------------------ *)
getEquivalentToken1Estimate(_amountToken2) ==
    IF activePool # "Ok" THEN Err(activePool)
    ELSE IF totalToken2 = 0 THEN Err("Panic")
    ELSE Ok((totalToken1 * _amountToken2) \div totalToken2, 0)

getEquivalentToken2Estimate(_amountToken1) ==
    IF activePool # "Ok" THEN Err(activePool)
    ELSE IF totalToken1 = 0 THEN Err("Panic")
    ELSE Ok((totalToken2 * _amountToken1) \div totalToken1, 0)

(* ------------------------------ withdraw ------------------------------- *)
\* the estimate with both quotients rounded up instead of down
getWithdrawEstimate_round_up(_share) ==
    IF activePool # "Ok" THEN Err(activePool)
    ELSE IF _share > totalShares THEN Err("InvalidShare")
    ELSE IF totalShares = 0 THEN Err("Panic")
    ELSE Ok((_share * totalToken1 + totalShares - 1) \div totalShares,
            (_share * totalToken2 + totalShares - 1) \div totalShares)

\* the estimate that also refuses the whole of totalShares
getWithdrawEstimate_strict(_share) ==
    IF activePool # "Ok" THEN Err(activePool)
    ELSE IF _share >= totalShares THEN Err("InvalidShare")
    ELSE IF totalShares = 0 THEN Err("Panic")
    ELSE Ok((_share * totalToken1) \div totalShares,
            (_share * totalToken2) \div totalShares)

getWithdrawEstimate(_share) ==
    IF activePool # "Ok" THEN Err(activePool)
    ELSE IF _share > totalShares THEN Err("InvalidShare")
    ELSE IF totalShares = 0 THEN Err("Panic")
    ELSE Ok((_share * totalToken1) \div totalShares,
            (_share * totalToken2) \div totalShares)

withdrawResult(caller, _share) ==
    LET c == validAmountCheck(shares, caller, _share) IN
    IF c # "Ok" THEN Err(c) ELSE getWithdrawEstimate(_share)

withdraw(caller, _share) ==
    LET r == withdrawResult(caller, _share)
        amountToken1 == r.v1
        amountToken2 == r.v2 IN
    /\ op' = Call("withdraw", caller, r)
    /\ IF r.res # "Ok" THEN UNCHANGED pool
       ELSE /\ shares' = and_modify(shares, caller, 0 - _share)
            /\ totalShares' = totalShares - _share
            /\ totalToken1' = totalToken1 - amountToken1
            /\ totalToken2' = totalToken2 - amountToken2
            /\ token1Balance' = and_modify(token1Balance, caller, amountToken1)
            /\ token2Balance' = and_modify(token2Balance, caller, amountToken2)
            /\ UNCHANGED fees

\* the message getWithdrawEstimate called on its own: a read-only call that
\* never asks for the caller
getWithdrawEstimateCall(_share) ==
    /\ op' = Call("getWithdrawEstimate", "none", getWithdrawEstimate(_share))
    /\ UNCHANGED pool

(* -------------------------------- swap --------------------------------- *)
\* the quote without the guard that keeps one unit of token 2 in the pool
getSwapToken1EstimateGivenToken1_no_guard(_amountToken1) ==
    IF activePool # "Ok" THEN Err(activePool)
    ELSE LET amountIn == ((1000 - fees) * _amountToken1) \div 1000
             token1After == totalToken1 + amountIn
             token2After == getK \div token1After IN
         IF token1After = 0 THEN Err("Panic")
         ELSE Ok(totalToken2 - token2After, 0)

\* the quote whose guard pays nothing at all when the output would empty the
\* reserve of token 2
getSwapToken1EstimateGivenToken1_guard_to_zero(_amountToken1) ==
    IF activePool # "Ok" THEN Err(activePool)
    ELSE LET amountIn == ((1000 - fees) * _amountToken1) \div 1000
             token1After == totalToken1 + amountIn
             token2After == getK \div token1After
             amountToken2 == totalToken2 - token2After IN
         IF token1After = 0 THEN Err("Panic")
         ELSE IF amountToken2 = totalToken2 THEN Ok(0, 0)
         ELSE Ok(amountToken2, 0)

getSwapToken1EstimateGivenToken1(_amountToken1) ==
    IF activePool # "Ok" THEN Err(activePool)
    ELSE LET amountIn == ((1000 - fees) * _amountToken1) \div 1000
             token1After == totalToken1 + amountIn
             token2After == getK \div token1After
             amountToken2 == totalToken2 - token2After IN
         IF token1After = 0 THEN Err("Panic")
         ELSE IF amountToken2 = totalToken2 THEN Ok(amountToken2 - 1, 0)
         ELSE Ok(amountToken2, 0)

\* the quote with its two checks in the other order
getSwapToken1EstimateGivenToken2_liquidity_first(_amountToken2) ==
    IF _amountToken2 >= totalToken2 THEN Err("InsufficientLiquidity")
    ELSE IF activePool # "Ok" THEN Err(activePool)
    ELSE LET token2After == totalToken2 - _amountToken2
             token1After == getK \div token2After
             amountToken1 == ((token1After - totalToken1) * 1000)
                                 \div (1000 - fees) IN
         IF token2After = 0 \/ fees = 1000 THEN Err("Panic")
         ELSE Ok(amountToken1, 0)

getSwapToken1EstimateGivenToken2(_amountToken2) ==
    IF activePool # "Ok" THEN Err(activePool)
    ELSE IF _amountToken2 >= totalToken2 THEN Err("InsufficientLiquidity")
    ELSE LET token2After == totalToken2 - _amountToken2
             token1After == getK \div token2After
             amountToken1 == ((token1After - totalToken1) * 1000)
                                 \div (1000 - fees) IN
         IF token2After = 0 \/ fees = 1000 THEN Err("Panic")
         ELSE Ok(amountToken1, 0)

\* the swap that lets an output one unit under the minimum through
swapToken1GivenToken1Result_off_by_one(caller, _amountToken1, _minToken2) ==
    LET c == validAmountCheck(token1Balance, caller, _amountToken1)
        q == getSwapToken1EstimateGivenToken1(_amountToken1) IN
    IF c # "Ok" THEN Err(c)
    ELSE IF q.res # "Ok" THEN q
    ELSE IF q.v1 + 1 < _minToken2 THEN Err("SlippageExceeded")
    ELSE q

swapToken1GivenToken1Result(caller, _amountToken1, _minToken2) ==
    LET c == validAmountCheck(token1Balance, caller, _amountToken1)
        q == getSwapToken1EstimateGivenToken1(_amountToken1) IN
    IF c # "Ok" THEN Err(c)
    ELSE IF q.res # "Ok" THEN q
    ELSE IF q.v1 < _minToken2 THEN Err("SlippageExceeded")
    ELSE q

\* the swap that adds to the reserve only what is left of the input after
\* the fee
swapToken1GivenToken1_fee_kept_out(caller, _amountToken1, _minToken2) ==
    LET r == swapToken1GivenToken1Result(caller, _amountToken1, _minToken2)
        amountToken2 == r.v1 IN
    /\ op' = Call("swapToken1GivenToken1", caller, r)
    /\ IF r.res # "Ok" THEN UNCHANGED pool
       ELSE /\ token1Balance' = and_modify(token1Balance, caller,
                                           0 - _amountToken1)
            /\ totalToken1' = totalToken1
                                + ((1000 - fees) * _amountToken1) \div 1000
            /\ totalToken2' = totalToken2 - amountToken2
            /\ token2Balance' = and_modify(token2Balance, caller, amountToken2)
            /\ UNCHANGED <<totalShares, shares, fees>>

swapToken1GivenToken1(caller, _amountToken1, _minToken2) ==
    LET r == swapToken1GivenToken1Result(caller, _amountToken1, _minToken2)
        amountToken2 == r.v1 IN
    /\ op' = Call("swapToken1GivenToken1", caller, r)
    /\ IF r.res # "Ok" THEN UNCHANGED pool
       ELSE /\ token1Balance' = and_modify(token1Balance, caller,
                                           0 - _amountToken1)
            /\ totalToken1' = totalToken1 + _amountToken1
            /\ totalToken2' = totalToken2 - amountToken2
            /\ token2Balance' = and_modify(token2Balance, caller, amountToken2)
            /\ UNCHANGED <<totalShares, shares, fees>>

\* the swap that does not check an input its quote rounded down to zero
swapToken1GivenToken2Result_zero_input(caller, _amountToken2, _maxToken1) ==
    LET q == getSwapToken1EstimateGivenToken2(_amountToken2) IN
    IF q.res # "Ok" THEN q
    ELSE IF q.v1 > _maxToken1 THEN Err("SlippageExceeded")
    ELSE IF q.v1 = 0 THEN q
    ELSE LET c == validAmountCheck(token1Balance, caller, q.v1) IN
         IF c # "Ok" THEN Err(c) ELSE q

swapToken1GivenToken2Result(caller, _amountToken2, _maxToken1) ==
    LET q == getSwapToken1EstimateGivenToken2(_amountToken2) IN
    IF q.res # "Ok" THEN q
    ELSE IF q.v1 > _maxToken1 THEN Err("SlippageExceeded")
    ELSE LET c == validAmountCheck(token1Balance, caller, q.v1) IN
         IF c # "Ok" THEN Err(c) ELSE q

\* the swap that moves the reserves before it checks the caller's balance
swapToken1GivenToken2_late_check(caller, _amountToken2, _maxToken1) ==
    LET r == swapToken1GivenToken2Result(caller, _amountToken2, _maxToken1)
        q == getSwapToken1EstimateGivenToken2(_amountToken2) IN
    /\ op' = Call("swapToken1GivenToken2", caller, r)
    /\ IF r.res = "Ok"
       THEN /\ token1Balance' = and_modify(token1Balance, caller, 0 - q.v1)
            /\ totalToken1' = totalToken1 + q.v1
            /\ totalToken2' = totalToken2 - _amountToken2
            /\ token2Balance' = and_modify(token2Balance, caller, _amountToken2)
            /\ UNCHANGED <<totalShares, shares, fees>>
       ELSE IF r.res = "InsufficientAmount"
       THEN /\ totalToken1' = totalToken1 + q.v1
            /\ totalToken2' = totalToken2 - _amountToken2
            /\ UNCHANGED <<totalShares, shares, fees, token1Balance,
                           token2Balance>>
       ELSE UNCHANGED pool

swapToken1GivenToken2(caller, _amountToken2, _maxToken1) ==
    LET r == swapToken1GivenToken2Result(caller, _amountToken2, _maxToken1)
        amountToken1 == r.v1 IN
    /\ op' = Call("swapToken1GivenToken2", caller, r)
    /\ IF r.res # "Ok" THEN UNCHANGED pool
       ELSE /\ token1Balance' = and_modify(token1Balance, caller,
                                           0 - amountToken1)
            /\ totalToken1' = totalToken1 + amountToken1
            /\ totalToken2' = totalToken2 - _amountToken2
            /\ token2Balance' = and_modify(token2Balance, caller, _amountToken2)
            /\ UNCHANGED <<totalShares, shares, fees>>

\* the two quote messages called on their own: read-only calls that never
\* ask for the caller
getSwapToken1EstimateGivenToken1Call(_amountToken1) ==
    /\ op' = Call("getSwapToken1EstimateGivenToken1", "none",
                  getSwapToken1EstimateGivenToken1(_amountToken1))
    /\ UNCHANGED pool

getSwapToken1EstimateGivenToken2Call(_amountToken2) ==
    /\ op' = Call("getSwapToken1EstimateGivenToken2", "none",
                  getSwapToken1EstimateGivenToken2(_amountToken2))
    /\ UNCHANGED pool

(* ------------------------------- inputs -------------------------------- *)
\* amounts a caller passes: zero and everything up to the supply
Amount1Inputs == 0..MaxSupply1
Amount2Inputs == 0..MaxSupply2
\* amounts a caller asks of the faucet in one call
Faucet1Inputs == {0, 1, 2}
Faucet2Inputs == {0, 1}

\* shares a caller asks to burn: none, all but one, all, one too many
ShareInputs(caller) ==
    LET my == get(shares, caller) IN
    {x \in {0, my - 1, my, my + 1} : x >= 0}

Next ==
    \/ \E c \in Accounts, a1 \in Faucet1Inputs, a2 \in Faucet2Inputs :
          faucet(c, a1, a2)
    \/ \E c \in Accounts, a1 \in Amount1Inputs, a2 \in Amount2Inputs :
          provide(c, a1, a2)
    \/ \E c \in Accounts : \E s \in ShareInputs(c) : withdraw(c, s)
    \/ \E s \in EstimateInputs : getWithdrawEstimateCall(s)
    \/ \E c \in Accounts, a \in Amount1Inputs, m \in LimitInputs :
          swapToken1GivenToken1(c, a, m)
    \/ \E c \in Accounts, a \in Amount2Inputs, m \in LimitInputs :
          swapToken1GivenToken2(c, a, m)
    \/ \E a \in Amount1Inputs : getSwapToken1EstimateGivenToken1Call(a)
    \/ \E a \in Amount2Inputs : getSwapToken1EstimateGivenToken2Call(a)

Spec == Init /\ [][Next]_vars

(* ------------------- the swaps on a pool after genesis ------------------ *)
\* reserves of the genesis deposit
SwapReserve1 == 3
SwapReserve2 == 4
\* units of token 1 the provider keeps after the deposit
SwapBalance == 5
\* fees the contract was created with
SwapFees == {0, 3, 100, 500}
\* amounts passed to the swaps and the quotes
SwapAmount1Inputs == 0..SwapBalance
SwapAmount2Inputs == 0..SwapReserve2

\* the storage after new(f), alice's faucet(t1 + b, t2) and her
\* provide(t1, t2): she holds the genesis shares and b units of token 1
SwapInit ==
    \E f \in SwapFees, t1 \in 1..SwapReserve1, t2 \in 1..SwapReserve2,
       b \in 0..SwapBalance :
       /\ fees = f
       /\ totalShares = genesisShare
       /\ totalToken1 = t1
       /\ totalToken2 = t2
       /\ shares = [a \in {"alice"} |-> genesisShare]
       /\ token1Balance = [a \in {"alice"} |-> b]
       /\ token2Balance = [a \in {"alice"} |-> 0]
       /\ op = Call("provide", "alice", Ok(genesisShare, 0))

SwapNext ==
    \/ \E c \in Accounts, a \in SwapAmount1Inputs, m \in LimitInputs :
          swapToken1GivenToken1(c, a, m)
    \/ \E c \in Accounts, a \in SwapAmount2Inputs, m \in LimitInputs :
          swapToken1GivenToken2(c, a, m)
    \/ \E a \in SwapAmount1Inputs : getSwapToken1EstimateGivenToken1Call(a)
    \/ \E a \in SwapAmount2Inputs : getSwapToken1EstimateGivenToken2Call(a)

SwapSpec == SwapInit /\ [][SwapNext]_vars

(* ======================= properties of the contract ==================== *)
SwapNames == {"swapToken1GivenToken1", "swapToken1GivenToken2"}
QuoteNames == {"getWithdrawEstimate", "getSwapToken1EstimateGivenToken1",
               "getSwapToken1EstimateGivenToken2"}
Succeeded(name) == op.name = name /\ op.res = "Ok"

\* the accounts that hold shares
Holders == {a \in DOMAIN shares : shares[a] > 0}

\* C1: in every reachable state the entries of the shares map add up to
\* totalShares.
C1_ShareConservation == Sum(shares) = totalShares

\* C1 witness: a withdraw has succeeded and two accounts still hold shares.
C1_Witness == Succeeded("withdraw") /\ Cardinality(Holders) = 2

\* C2: every call but faucet, successful or failing, leaves reserve plus
\* off-pool balances the same for each token, and what a successful withdraw
\* or swap takes out of a reserve is added to the caller's balance entry.
C2_ValueConserved ==
    [][/\ op'.name # "faucet" =>
            /\ totalToken1' + Sum(token1Balance') = totalToken1 + Sum(token1Balance)
            /\ totalToken2' + Sum(token2Balance') = totalToken2 + Sum(token2Balance)
       /\ op'.name \in SwapNames \cup {"withdraw"} /\ op'.res = "Ok" =>
            /\ op'.caller \in DOMAIN token2Balance'
            /\ token2Balance'[op'.caller] =
                   get(token2Balance, op'.caller) + (totalToken2 - totalToken2')
       /\ op'.name = "withdraw" /\ op'.res = "Ok" =>
            /\ op'.caller \in DOMAIN token1Balance'
            /\ token1Balance'[op'.caller] =
                   get(token1Balance, op'.caller) + (totalToken1 - totalToken1')
      ]_vars

\* C2 witness: a withdraw has paid out both tokens.
C2_Witness == Succeeded("withdraw") /\ op.v1 > 0 /\ op.v2 > 0

\* C3: with fees > 0 every successful swap leaves K = totalToken1 *
\* totalToken2 at least as large as before, so that K never decreases over a
\* sequence of swaps.  (The claim also asks for a strict increase whenever the
\* swap moves a positive amount, which asks for more.)
C3_KNeverDecreases ==
    [][op'.name \in SwapNames /\ op'.res = "Ok" /\ fees > 0 => getK' >= getK]_vars

\* C4: the two reserves are both zero or both positive; in particular no
\* swap leaves totalToken2 at zero.
C4_ReservesZeroTogether == (totalToken1 = 0) <=> (totalToken2 = 0)

\* C4 witness: a fee-free swap whose price formula asked for the whole of
\* totalToken2 has paid one unit less and left one unit in the pool.
C4_Witness ==
    /\ Succeeded("swapToken1GivenToken1")
    /\ fees = 0 /\ op.v1 = 0 /\ totalToken2 = 1

\* C5: totalShares is zero exactly when the pool is empty (K = 0), and then
\* both reserves are zero.
C5_SharesZeroIffReservesZero ==
    /\ (totalShares = 0) <=> (getK = 0)
    /\ totalShares = 0 => totalToken1 = 0 /\ totalToken2 = 0

\* C5 witness: a withdraw has burned the last share and emptied the pool
\* while the caller got tokens back.
C5_Witness ==
    /\ Succeeded("withdraw") /\ totalShares = 0 /\ getK = 0
    /\ op.v1 > 0 /\ op.v2 > 0

\* C6: a call that returns an error leaves the whole storage as it was.
C6_ErrorsChangeNothing == [][op'.res \in Errors => UNCHANGED pool]_vars

\* C6 witness: swapToken1GivenToken2 has failed its last check, the caller's
\* balance, on an active pool.
C6_Witness ==
    /\ op.name = "swapToken1GivenToken2" /\ op.res = "InsufficientAmount"
    /\ getK > 0

\* a deposit of positive amounts that the caller can afford
Affordable(c, a1, a2) ==
    /\ a1 > 0 /\ a1 <= get(token1Balance, c)
    /\ a2 > 0 /\ a2 <= get(token2Balance, c)

\* C7: on a pool with totalShares > 0 every successful provide(a1, a2) has
\* a1 * totalToken2 = a2 * totalToken1 on the reserves before the call, and a
\* positive, affordable deposit that does not is refused with
\* NonEquivalentValue.
C7_ProvideMatchesRatio ==
    [][op'.name = "provide" /\ totalShares > 0 =>
          \A a1 \in Amount1Inputs, a2 \in Amount2Inputs :
             provide(op'.caller, a1, a2) =>
                /\ op'.res = "Ok" => a1 * totalToken2 = a2 * totalToken1
                /\ Affordable(op'.caller, a1, a2)
                      /\ a1 * totalToken2 # a2 * totalToken1
                      => op'.res = "NonEquivalentValue"
      ]_vars

\* C8: while the pool is empty (K = 0) every swap and every quote fails with
\* ZeroLiquidity, whatever the arguments and the caller.
C8_EmptyPoolZeroLiquidity ==
    [][getK = 0 /\ op'.name \in SwapNames \cup QuoteNames
          => op'.res = "ZeroLiquidity"]_vars

\* C8 as amended: while the pool is empty every swap and every quote fails;
\* the quotes and swapToken1GivenToken2 fail with ZeroLiquidity, and
\* swapToken1GivenToken1 fails with ZeroAmount for a zero amount, with
\* InsufficientAmount for more than the caller's token 1 balance, and with
\* ZeroLiquidity otherwise.
C8_EmptyPoolFails ==
    [][getK = 0 =>
          /\ op'.name \in SwapNames \cup QuoteNames => op'.res \in Errors
          /\ op'.name \in QuoteNames \cup {"swapToken1GivenToken2"}
                => op'.res = "ZeroLiquidity"
          /\ op'.name = "swapToken1GivenToken1" =>
                \A a \in Amount1Inputs, m \in LimitInputs :
                   swapToken1GivenToken1(op'.caller, a, m) =>
                      op'.res = IF a = 0 THEN "ZeroAmount"
                                ELSE IF a > get(token1Balance, op'.caller)
                                     THEN "InsufficientAmount"
                                ELSE "ZeroLiquidity"
      ]_vars

\* C8 witness: on an empty pool swapToken1GivenToken1 has been refused for a
\* zero amount, asked by a caller who holds token 1.
C8_Witness ==
    /\ getK = 0
    /\ op.name = "swapToken1GivenToken1" /\ op.res = "ZeroAmount"
    /\ get(token1Balance, op.caller) > 0

\* C9: the pool goes from empty (K = 0) to active (K > 0) only by a successful
\* provide, and from active to empty only by a successful withdraw that leaves
\* totalShares at 0; no other call, and no failing call, changes which of the
\* two it is.
C9_MacroStateMachine ==
    [][/\ getK = 0 /\ getK' > 0 => op'.name = "provide" /\ op'.res = "Ok"
       /\ getK > 0 /\ getK' = 0 =>
             op'.name = "withdraw" /\ op'.res = "Ok" /\ totalShares' = 0
       /\ op'.name \notin {"provide", "withdraw"} \/ op'.res # "Ok"
             => ((getK = 0) <=> (getK' = 0))
      ]_vars

\* C9 witness: both accounts have held shares and a withdraw has burned the
\* last one, emptying the pool.
C9_Witness ==
    /\ Succeeded("withdraw") /\ getK = 0 /\ totalShares = 0
    /\ DOMAIN shares = Accounts

\* C10: whenever totalShares = 0, a provide of positive amounts the caller can
\* afford succeeds, issues exactly 100000000 shares to the caller whatever the
\* amounts, and makes the amounts the reserves.
C10_GenesisDeterminism ==
    [][op'.name = "provide" /\ totalShares = 0 =>
          \A a1 \in Amount1Inputs, a2 \in Amount2Inputs :
             provide(op'.caller, a1, a2) /\ Affordable(op'.caller, a1, a2) =>
                /\ op'.res = "Ok" /\ op'.v1 = 100000000
                /\ totalShares' = 100000000
                /\ shares'[op'.caller] = get(shares, op'.caller) + 100000000
                /\ totalToken1' = a1 /\ totalToken2' = a2
      ]_vars

\* C10 witness: a pool that was withdrawn completely has received a new
\* genesis deposit: the provider holds all 100000000 shares, the other
\* account has an entry of 0 shares left from before.
C10_Witness ==
    /\ Succeeded("provide") /\ op.v1 = 100000000 /\ totalShares = 100000000
    /\ get(shares, op.caller) = 100000000
    /\ \E a \in DOMAIN shares : a # op.caller /\ shares[a] = 0
\* C11 as stated: on a pool with liquidity, for every amount x of token 1 the
\* caller can afford, x = 0 included, swapToken1GivenToken1(x, 0) succeeds,
\* returns what getSwapToken1EstimateGivenToken1(x) returns in the state
\* before the call, takes exactly that out of totalToken2 and adds x to
\* totalToken1.
C11_QuoteExecuteAnyAmount ==
    [][op'.name = "swapToken1GivenToken1" /\ getK > 0 =>
          \A x \in SwapAmount1Inputs :
             /\ swapToken1GivenToken1(op'.caller, x, 0)
             /\ x <= get(token1Balance, op'.caller)
             => LET q == getSwapToken1EstimateGivenToken1(x) IN
                /\ q.res = "Ok" /\ op'.res = "Ok" /\ op'.v1 = q.v1
                /\ totalToken2' = totalToken2 - q.v1
                /\ totalToken1' = totalToken1 + x
      ]_vars

\* C11 amended: the same for every positive amount x the caller can afford
\* (for x = 0 the quote returns 0 and the swap fails with ZeroAmount).
C11_QuoteExecutePositiveAmount ==
    [][op'.name = "swapToken1GivenToken1" /\ getK > 0 =>
          \A x \in SwapAmount1Inputs :
             /\ swapToken1GivenToken1(op'.caller, x, 0)
             /\ 0 < x /\ x <= get(token1Balance, op'.caller)
             => LET q == getSwapToken1EstimateGivenToken1(x) IN
                /\ q.res = "Ok" /\ op'.res = "Ok" /\ op'.v1 = q.v1
                /\ totalToken2' = totalToken2 - q.v1
                /\ totalToken1' = totalToken1 + x
      ]_vars

\* C11 witness: a swap of token 1 has succeeded and paid out token 2.
C11_Witness == Succeeded("swapToken1GivenToken1") /\ op.v1 > 0

\* C12: a successful swapToken1GivenToken1(amountIn, minOut) credits the
\* caller at least minOut of token 2 and a successful
\* swapToken1GivenToken2(amountOut, maxIn) debits the caller at most maxIn of
\* token 1; a call whose quote is computed and breaks the bound (the quoted
\* output is under minOut, the quoted input is over maxIn) fails with
\* SlippageExceeded and changes nothing.
C12_SlippageProtection ==
    [][/\ op'.name = "swapToken1GivenToken1" =>
            \A x \in SwapAmount1Inputs, minOut \in LimitInputs :
               swapToken1GivenToken1(op'.caller, x, minOut) =>
                  LET q == getSwapToken1EstimateGivenToken1(x) IN
                  /\ op'.res = "Ok" =>
                        /\ op'.v1 >= minOut
                        /\ token2Balance'[op'.caller]
                              = get(token2Balance, op'.caller) + op'.v1
                  /\ /\ validAmountCheck(token1Balance, op'.caller, x) = "Ok"
                     /\ q.res = "Ok" /\ q.v1 < minOut
                     => op'.res = "SlippageExceeded" /\ UNCHANGED pool
       /\ op'.name = "swapToken1GivenToken2" =>
            \A y \in SwapAmount2Inputs, maxIn \in LimitInputs :
               swapToken1GivenToken2(op'.caller, y, maxIn) =>
                  LET q == getSwapToken1EstimateGivenToken2(y) IN
                  /\ op'.res = "Ok" =>
                        /\ op'.v1 <= maxIn
                        /\ token1Balance'[op'.caller]
                              = get(token1Balance, op'.caller) - op'.v1
                  /\ q.res = "Ok" /\ q.v1 > maxIn
                     => op'.res = "SlippageExceeded" /\ UNCHANGED pool
      ]_vars

\* C12 witness: a swap of token 1 by a caller who holds token 1 was refused
\* with SlippageExceeded.
C12_Witness ==
    /\ op.name = "swapToken1GivenToken1" /\ op.res = "SlippageExceeded"
    /\ get(token1Balance, op.caller) > 0

\* C13: in every reachable state no message divides by zero, whatever its
\* arguments: on an empty pool the two swap quotes return ZeroLiquidity, on a
\* pool with liquidity their divisors totalToken1 + amountIn (after the fee),
\* totalToken2 - _amountToken2 and 1000 - fees are positive, and the reserves
\* provide divides by and the totalShares getWithdrawEstimate divides by are
\* positive whenever the division is reached.
C13_NoDivisionByZero ==
    /\ op.res # "Panic"
    /\ \A x \in Amount1Inputs :
          LET q == getSwapToken1EstimateGivenToken1(x) IN
          /\ q.res # "Panic"
          /\ getK = 0 => q.res = "ZeroLiquidity"
          /\ getK > 0 => totalToken1 + ((1000 - fees) * x) \div 1000 > 0
    /\ \A y \in Amount2Inputs :
          LET q == getSwapToken1EstimateGivenToken2(y) IN
          /\ q.res # "Panic"
          /\ getK = 0 => q.res = "ZeroLiquidity"
          /\ getK > 0 /\ y < totalToken2 =>
                totalToken2 - y > 0 /\ 1000 - fees > 0
    /\ \A c \in Accounts, a1 \in Amount1Inputs, a2 \in Amount2Inputs :
          /\ provideShare(c, a1, a2).res # "Panic"
          /\ /\ validAmountCheck(token1Balance, c, a1) = "Ok"
             /\ validAmountCheck(token2Balance, c, a2) = "Ok"
             /\ totalShares # 0
             => totalToken1 > 0 /\ totalToken2 > 0
    /\ \A s \in EstimateInputs :
          /\ getWithdrawEstimate(s).res # "Panic"
          /\ getK > 0 /\ s <= totalShares => totalShares > 0
    /\ \A x \in Amount1Inputs : getEquivalentToken2Estimate(x).res # "Panic"
    /\ \A y \in Amount2Inputs : getEquivalentToken1Estimate(y).res # "Panic"

\* C13 witness: on a pool with liquidity a quote for an output of token 2 has
\* gone through both of its divisions and asks for a positive input.
C13_Witness == Succeeded("getSwapToken1EstimateGivenToken2") /\ op.v1 > 0

\* C14: after a successful provide(a1, a2) that mints s shares, a
\* withdraw(s) by the same caller in the state the provide leaves succeeds
\* and pays out w1 <= a1 and w2 <= a2, so that both reserves and K after the
\* pair are at least what they were before the provide; after a genesis
\* provide it pays out exactly a1 and a2.  When the withdraw is the very next
\* call it succeeds, and after a genesis provide it empties the pool again.
C14_RoundTripFavoursPool ==
    [][/\ /\ Succeeded("provide")
          /\ op'.name = "withdraw" /\ op'.caller = op.caller
          /\ withdraw(op.caller, op.v1)
          => /\ op'.res = "Ok"
             /\ totalShares = op.v1 => totalToken1' = 0 /\ totalToken2' = 0
       /\ op'.name = "provide" /\ op'.res = "Ok" =>
          LET a1 == totalToken1' - totalToken1
              a2 == totalToken2' - totalToken2
              w == (withdrawResult(op.caller, op.v1))' IN
          /\ w.res = "Ok"
          /\ w.v1 <= a1 /\ w.v2 <= a2
          /\ totalToken1' - w.v1 >= totalToken1
          /\ totalToken2' - w.v2 >= totalToken2
          /\ (totalToken1' - w.v1) * (totalToken2' - w.v2) >= getK
          /\ totalShares = 0 => w.v1 = a1 /\ w.v2 = a2
      ]_vars

\* C14 witness: a provide has minted shares for a caller who already held
\* some, and the withdraw of just those shares pays out less of token 1 than
\* the reserve holds per share: the quotient is rounded down.
C14_Witness ==
    /\ Succeeded("provide")
    /\ get(shares, op.caller) > op.v1
    /\ withdrawResult(op.caller, op.v1).res = "Ok"
    /\ withdrawResult(op.caller, op.v1).v1 * totalShares < op.v1 * totalToken1

\* shares a withdraw is measured with: none, one, half, all but one and all
\* of totalShares, and the same of each account's own shares
UnderflowShares ==
    LET of(n) == {x \in {0, 1, n \div 2, n - 1, n} : 0 <= x /\ x <= n} IN
    of(totalShares) \cup UNION {of(get(shares, a)) : a \in Accounts}

\* C15: on a pool with liquidity getWithdrawEstimate(share) returns, for
\* every share <= totalShares, amounts that are at most the two reserves, and
\* no reserve, nor totalShares, nor any entry of shares is ever negative: no
\* withdraw takes out more than there is.
C15_WithdrawNeverUnderflows ==
    /\ getK > 0 =>
          \A s \in UnderflowShares :
             LET r == getWithdrawEstimate(s) IN
             /\ r.res = "Ok"
             /\ r.v1 <= totalToken1 /\ r.v2 <= totalToken2
    /\ totalToken1 >= 0 /\ totalToken2 >= 0 /\ totalShares >= 0
    /\ \A a \in DOMAIN shares : shares[a] >= 0
    /\ op.name = "withdraw" /\ op.res = "Ok" =>
          /\ op.v1 >= 0 /\ op.v2 >= 0
          /\ get(shares, op.caller) <= totalShares

\* C15 witness: a withdraw of a part of the shares has paid out and left the
\* caller and the pool with shares and reserves.
C15_Witness ==
    /\ Succeeded("withdraw") /\ op.v1 > 0
    /\ get(shares, op.caller) > 0 /\ getK > 0

\* the fee is in range, and right after creation it is the sanitized argument
FeesSanitized ==
    /\ fees >= 0 /\ fees < 1000
    /\ op.name = "new" => fees = (IF op.v1 < 1000 THEN op.v1 ELSE 0)

\* C16: the constructor stores the fee f it is given when f < 1000 and 0
\* when f >= 1000, so that 0 <= fees < 1000 in every reachable state, and no
\* call ever changes fees.
C16_FeesSanitizedAndImmutable ==
    [][FeesSanitized /\ FeesSanitized' /\ fees' = fees]_vars

\* C16 witness: the contract has been created with a fee over 1000 and
\* stores 0.
C16_Witness == op.name = "new" /\ op.v1 > 1000 /\ fees = 0

\* largest input the quotes are compared at
QuoteMax == 12
QuoteInputs == 0..QuoteMax

\* the input x is one for which the quote's guard fires: the curve would pay
\* out the whole reserve of token 2
GuardFires(x) ==
    getK \div (totalToken1 + ((1000 - fees) * x) \div 1000) = 0

\* C17: on a pool with liquidity getSwapToken1EstimateGivenToken1 succeeds
\* for every input, is non-decreasing in its input (x <= y implies
\* quote(x) <= quote(y)), and always returns less than totalToken2, also for
\* the inputs at which its guard fires.
C17_MonotonicPricing ==
    getK > 0 =>
       \A x \in QuoteInputs :
          LET qx == getSwapToken1EstimateGivenToken1(x) IN
          /\ qx.res = "Ok"
          /\ qx.v1 >= 0 /\ qx.v1 < totalToken2
          /\ \A y \in QuoteInputs :
                x <= y => qx.v1 <= getSwapToken1EstimateGivenToken1(y).v1

\* C17 witness: a quote has returned all of the reserve of token 2 but one
\* unit on a pool where the guard fires at the largest input of a call, and
\* a smaller input is quoted a smaller, positive output.
C17_Witness ==
    /\ Succeeded("getSwapToken1EstimateGivenToken1")
    /\ op.v1 = totalToken2 - 1
    /\ GuardFires(SwapBalance)
    /\ \E x \in QuoteInputs :
          /\ 0 < getSwapToken1EstimateGivenToken1(x).v1
          /\ getSwapToken1EstimateGivenToken1(x).v1 < op.v1

\* positive share counts an account holding n shares can ask to burn: one,
\* half, all but one and all of them
HeldShares(n) == {x \in {1, n \div 2, n - 1, n} : 0 < x /\ x <= n}

\* C18: in every reachable state an account that holds s > 0 shares can
\* withdraw any share count 0 < share <= s: the call returns Ok, never
\* ZeroLiquidity or InvalidShare, and takes the shares off the caller's
\* entry.  (A withdraw can be called in every state, so the states before a
\* withdraw are all the reachable states.)
C18_WithdrawNeverLocked ==
    [][op'.name = "withdraw" =>
          /\ \A c \in Accounts : \A s \in HeldShares(get(shares, c)) :
                withdrawResult(c, s).res = "Ok"
          /\ \A s \in ShareInputs(op'.caller) :
                /\ withdraw(op'.caller, s)
                /\ 0 < s /\ s <= get(shares, op'.caller)
                => /\ op'.res = "Ok"
                   /\ shares'[op'.caller] = shares[op'.caller] - s
      ]_vars

\* C18 witness: an account has withdrawn all of its shares while another
\* account still holds some.
C18_Witness ==
    /\ Succeeded("withdraw") /\ get(shares, op.caller) = 0
    /\ op.v1 + op.v2 > 0
    /\ Holders # {}

\* C19: every successful swap takes a positive amount of token 1 from the
\* caller and adds it to totalToken1, which no successful swap decreases;
\* swapToken1GivenToken2 fails with ZeroAmount and pays nothing when the
\* input its quote asks for is rounded down to 0.
C19_NoFreeOutput ==
    [][/\ op'.name \in SwapNames /\ op'.res = "Ok" =>
            /\ op'.caller \in DOMAIN token1Balance
            /\ token1Balance'[op'.caller] < token1Balance[op'.caller]
            /\ totalToken1' - totalToken1
                  = token1Balance[op'.caller] - token1Balance'[op'.caller]
            /\ totalToken1' > totalToken1
       /\ op'.name = "swapToken1GivenToken2" =>
            \A y \in SwapAmount2Inputs, maxIn \in LimitInputs :
               LET q == getSwapToken1EstimateGivenToken2(y) IN
               /\ swapToken1GivenToken2(op'.caller, y, maxIn)
               /\ q.res = "Ok" /\ q.v1 = 0
               => op'.res = "ZeroAmount" /\ UNCHANGED pool
      ]_vars

\* C19 witness: swapToken1GivenToken2 has been refused with ZeroAmount on a
\* pool where the quote for one unit of token 2 asks for no token 1 at all.
C19_Witness ==
    /\ op.name = "swapToken1GivenToken2" /\ op.res = "ZeroAmount"
    /\ getSwapToken1EstimateGivenToken2(1).res = "Ok"
    /\ getSwapToken1EstimateGivenToken2(1).v1 = 0

\* the entries of the accounts other than c are the same in m and n
OthersSame(m, n, c) ==
    \A a \in Accounts \ {c} :
       /\ a \in DOMAIN n <=> a \in DOMAIN m
       /\ get(n, a) = get(m, a)

\* C20: a swap leaves totalShares and the shares map unchanged; faucet,
\* provide, withdraw and the swaps leave the balance entries and the share
\* entry of every account but the caller unchanged; faucet changes nothing
\* but the caller's two balance entries; getWithdrawEstimate and the two swap
\* quotes change nothing.
C20_FrameConditions ==
    [][/\ op'.name \in SwapNames =>
            totalShares' = totalShares /\ shares' = shares
       /\ op'.name \in SwapNames \cup {"faucet", "provide", "withdraw"} =>
            /\ OthersSame(shares, shares', op'.caller)
            /\ OthersSame(token1Balance, token1Balance', op'.caller)
            /\ OthersSame(token2Balance, token2Balance', op'.caller)
       /\ op'.name = "faucet" =>
            UNCHANGED <<totalShares, totalToken1, totalToken2, shares, fees>>
       /\ op'.name \in QuoteNames => UNCHANGED pool
      ]_vars

\* C20 witness: a swap has paid out to its caller while another account
\* holds shares and a balance of token 1.
C20_Witness ==
    /\ op.name \in SwapNames /\ op.res = "Ok" /\ op.v1 > 0
    /\ \E a \in Accounts \ {op.caller} :
          get(shares, a) > 0 /\ get(token1Balance, a) > 0

====
